---- MODULE Spec2Model ----
(***************************************************************************)
(* Model of examples/animatediff/ad/modules/attention.py: the attention    *)
(* modules (Attention, CrossAttention, CrossFrameAttention), the           *)
(* transformer block and the spatial transformer built from them.          *)
(*                                                                         *)
(* A tensor is a record: its shape, its element precision (dtype), and its *)
(* contents at two granularities.  "flat" holds the elements in row-major  *)
(* order when they are tracked one by one (the head-folding round trip);   *)
(* it is <<>> when they are not.  "data" holds, for every index of axis 0, *)
(* a term naming how that slab was computed (which projection of which     *)
(* input frame, which attention call).  A Python exception is an Error     *)
(* record; every operation handed an Error hands it on, so the first       *)
(* exception of a call is the call's outcome.                              *)
(***************************************************************************)
EXTENDS Integers, Sequences, FiniteSets, TLC

VARIABLES FLASH_IS_AVAILABLE, device_target, self, ret

vars == <<FLASH_IS_AVAILABLE, device_target, self, ret>>

\* ---------------------------------------------------------------- bounds
MaxBatch == 2
MaxSeqUnits == 4
MaxHeads == 2
MaxVideoLength == 2
MaxDim == 2
MaxBase == 1
MaxSide == 2
MaxDepth == 1

\* ------------------------------------------------------- program constants
FlashSeqAlign == 16
FlashMaxHeadDim == 128
NormNumGroups == 32
DefaultChunkSize == 2

\* ------------------------------------------------------ bounded input sets
SeqLens == {8 * u : u \in 1..MaxSeqUnits}
HeadDims == {40, 128, 160}
QueryDims == {64}
DTypes == {"float16", "float32"}
Targets == {"Ascend", "GPU"}
MaskDTypes == {"uint8", "float16"}

\* ------------------------------------------------------------ Python values
None == [tag |-> "None"]

PyInt(n) == [tag |-> "int", v |-> n]

Raise(e) == [tag |-> "Error", err |-> e]

Tensor(shape, dtype, data) ==
    [tag |-> "Tensor", shape |-> shape, dtype |-> dtype, flat |-> <<>>, data |-> data]

IsTensor(t) == t.tag = "Tensor"

IsError(t) == t.tag = "Error"

\* The first Error of a sequence of values, in program order; None when there is none.
RECURSIVE FirstError(_)
FirstError(ts) ==
    IF ts = <<>> THEN None
    ELSE IF IsError(Head(ts)) THEN Head(ts)
    ELSE FirstError(Tail(ts))

exists(val) == val # None

\* default with the test on val lost: d whatever val is
default_always(val, d) == d

\* Every call site of the file passes a tensor or an int as d, so line 48 (d()) is never reached.
default(val, d) == IF exists(val) THEN val ELSE d

\* ------------------------------------------------------------- tensor engine
RECURSIVE Numel(_)
Numel(shape) == IF shape = <<>> THEN 1 ELSE Head(shape) * Numel(Tail(shape))

Stride(shape, i) == Numel(SubSeq(shape, i + 1, Len(shape)))

\* coordinate on axis i of the 0-based row-major position lin
Coord(lin, shape, i) == (lin \div Stride(shape, i)) % shape[i]

RECURSIVE Offset(_, _, _)
Offset(idx, shape, i) ==
    IF i > Len(shape) THEN 0
    ELSE idx[i] * Stride(shape, i) + Offset(idx, shape, i + 1)

\* the j-th of f equal row-major pieces of slab s
Piece(s, j, f) ==
    IF f = 1 THEN s
    ELSE IF s[1] = "stack" THEN s[2][j]
    ELSE <<"piece", j, f, s>>

Stack(es) == IF Len(es) = 1 THEN es[1] ELSE <<"stack", es>>

\* ops.reshape / Tensor.view: the row-major order is kept; merging axis 0 with what
\* follows cuts every slab into pieces, splitting axis 0 stacks consecutive slabs.
ops_reshape(x, shape) ==
    IF ~IsTensor(x) THEN x
    ELSE IF Numel(shape) # Numel(x.shape) THEN Raise("ValueError")
    ELSE LET o == x.shape[1]
             n == shape[1]
             data == IF n = o THEN x.data
                     ELSE IF n % o = 0
                     THEN [r \in 1..n |-> Piece(x.data[((r - 1) \div (n \div o)) + 1],
                                                ((r - 1) % (n \div o)) + 1, n \div o)]
                     ELSE IF o % n = 0
                     THEN [c \in 1..n |->
                             Stack([j \in 1..(o \div n) |-> x.data[(c - 1) * (o \div n) + j]])]
                     ELSE [c \in 1..n |-> <<"reshape", x.shape, shape, c, x.data>>]
         IN [x EXCEPT !.shape = shape, !.data = data]

\* view(..., -1): the last axis is inferred from the element count
view_infer(x, lead) ==
    IF ~IsTensor(x) THEN x
    ELSE IF Numel(x.shape) % Numel(lead) # 0 THEN Raise("ValueError")
    ELSE ops_reshape(x, Append(lead, Numel(x.shape) \div Numel(lead)))

\* ops.transpose with a 0-based permutation that keeps axis 0 in place
ops_transpose(x, perm) ==
    IF ~IsTensor(x) THEN x
    ELSE IF Len(perm) # Len(x.shape) THEN Raise("ValueError")
    ELSE LET ns == [i \in 1..Len(perm) |-> x.shape[perm[i] + 1]]
             inv(j) == CHOOSE i \in 1..Len(perm) : perm[i] + 1 = j
             old(l) == Offset([j \in 1..Len(perm) |-> Coord(l, ns, inv(j))], x.shape, 1)
             flat == IF x.flat = <<>> THEN <<>>
                     ELSE [p \in 1..Len(x.flat) |-> x.flat[old(p - 1) + 1]]
         IN [x EXCEPT !.shape = ns, !.flat = flat]

\* Tensor.to with the cast lost
to_dtype_kept(x, dtype) == x

to_dtype(x, dtype) == IF ~IsTensor(x) THEN x ELSE [x EXCEPT !.dtype = dtype]

ops_zeros(shape, dtype) == Tensor(shape, dtype, [b \in 1..shape[1] |-> <<"zeros">>])

\* batched ops.matmul of (B, M, K) with (B, K, N)
ops_matmul(a, b) ==
    IF ~IsTensor(a) THEN a
    ELSE IF ~IsTensor(b) THEN b
    ELSE IF Len(a.shape) # 3 \/ Len(b.shape) # 3 \/ a.shape[1] # b.shape[1]
            \/ a.shape[3] # b.shape[2]
    THEN Raise("ValueError")
    ELSE Tensor(<<a.shape[1], a.shape[2], b.shape[3]>>, a.dtype,
                [i \in 1..a.shape[1] |-> <<"matmul", a.data[i], b.data[i]>>])

\* x + y of two tensors of one shape; adding zeros changes no value
ops_add(x, y) ==
    IF ~IsTensor(x) THEN x
    ELSE IF ~IsTensor(y) THEN y
    ELSE IF x.shape # y.shape THEN Raise("ValueError")
    ELSE Tensor(x.shape,
                IF x.dtype = "float32" \/ y.dtype = "float32" THEN "float32" ELSE "float16",
                [i \in 1..x.shape[1] |->
                    IF x.data[i] = <<"zeros">> THEN y.data[i]
                    ELSE IF y.data[i] = <<"zeros">> THEN x.data[i]
                    ELSE <<"add", x.data[i], y.data[i]>>])

\* nn.Dense(in, out).to_float(dtype): acts on the last axis, slab by slab
Dense(name, in_channels, out_channels, dtype) ==
    [name |-> name, in_channels |-> in_channels, out_channels |-> out_channels,
     dtype |-> dtype, zero |-> FALSE]

Dense_construct(layer, x) ==
    IF ~IsTensor(x) THEN x
    ELSE IF x.shape[Len(x.shape)] # layer.in_channels THEN Raise("ValueError")
    ELSE Tensor([x.shape EXCEPT ![Len(x.shape)] = layer.out_channels], layer.dtype,
                [i \in 1..x.shape[1] |->
                    IF layer.zero THEN <<"zeros">> ELSE <<layer.name, x.data[i]>>])

\* attribute lookup on a module object: only what __init__ assigned is there
HasAttr(obj, name) == name \in obj.attrs

\* ------------------------------------------------- CrossAttention: head folding
\* (b, n, h*d) -> (b*h, n, d)
_rearange_in(x, h) ==
    IF ~IsTensor(x) THEN x
    ELSE LET b == x.shape[1]
             n == x.shape[2]
             d == x.shape[3] \div h
             x1 == ops_reshape(x, <<b, n, h, d>>)
             x2 == ops_transpose(x1, <<0, 2, 1, 3>>)
         IN ops_reshape(x2, <<b * h, n, d>>)

\* _rearange_out with the transpose of line 172 lost
_rearange_out_untransposed(x, h) ==
    IF ~IsTensor(x) THEN x
    ELSE ops_reshape(x, <<x.shape[1] \div h, x.shape[2], h * x.shape[3]>>)

\* (b*h, n, d) -> (b, n, h*d)
_rearange_out(x, h) ==
    IF ~IsTensor(x) THEN x
    ELSE LET b == x.shape[1] \div h
             n == x.shape[2]
             d == x.shape[3]
             x1 == ops_reshape(x, <<b, h, n, d>>)
             x2 == ops_transpose(x1, <<0, 2, 1, 3>>)
         IN ops_reshape(x2, <<b, n, h * d>>)

\* ------------------------------------------------------------------ Attention
Attention__init__(dim_head) ==
    [cls |-> "Attention", dim_head |-> dim_head,
     attrs |-> {"softmax", "transpose", "scale"}]

\* -np.finfo(finfo_type).max
max_neg_value(dtype) == <<"-finfo.max", IF dtype = "float16" THEN "float16" ELSE "float32">>

\* Tensor.repeat(repeats, axis=0): every slab repeats times in a row
Tensor_repeat(x, repeats) ==
    IF ~IsTensor(x) THEN x
    ELSE Tensor([x.shape EXCEPT ![1] = x.shape[1] * repeats], x.dtype,
                [r \in 1..(x.shape[1] * repeats) |-> x.data[((r - 1) \div repeats) + 1]])

ops_expand_dims(x, axis) ==
    IF ~IsTensor(x) THEN x
    ELSE [x EXCEPT !.shape = SubSeq(x.shape, 1, axis) \o <<1>>
                                 \o SubSeq(x.shape, axis + 1, Len(x.shape))]

\* Tensor.masked_fill(mask, value): a NEW tensor, the receiver is left as it was
Tensor_masked_fill(x, mask, value) ==
    IF ~IsTensor(x) THEN x
    ELSE IF ~IsTensor(mask) THEN mask
    ELSE IF Len(mask.shape) # Len(x.shape)
            \/ \E i \in 1..Len(x.shape) : mask.shape[i] \notin {1, x.shape[i]}
    THEN Raise("ValueError")
    ELSE [x EXCEPT !.data = [i \in 1..x.shape[1] |->
                                <<"masked_fill", x.data[i], mask.data[i], value>>]]

ops_softmax(x) ==
    IF ~IsTensor(x) THEN x
    ELSE [x EXCEPT !.data = [i \in 1..x.shape[1] |-> <<"softmax", x.data[i]>>]]

\* The value the name sim is bound to when line 314 reads it.  Line 309 is an
\* expression statement: its result is dropped, so sim is what line 298 computed
\* unless one of lines 301-309 raised.
Attention_sim_at_softmax(att, sim, mask) ==
    IF ~exists(mask) \/ ~IsTensor(sim) THEN sim
    ELSE LET m1 == IF ~HasAttr(att, "reshape") THEN Raise("AttributeError")
                   ELSE view_infer(mask, <<mask.shape[1]>>)
             value == max_neg_value(sim.dtype)
             m2 == IF ~IsTensor(m1) THEN m1
                   ELSE IF ~HasAttr(att, "heads") THEN Raise("AttributeError")
                   ELSE Tensor_repeat(m1, att.heads)
             m3 == ops_expand_dims(m2, 1)
             filled == Tensor_masked_fill(sim, m3, value)
         IN IF IsError(filled) THEN filled ELSE sim

\* Attention.construct: [out, softmax_in]
Attention_construct(att, q, k, v, mask) ==
    LET kT == ops_transpose(k, <<0, 2, 1>>)
        qk == ops_matmul(q, kT)
        sim == IF ~IsTensor(qk) THEN qk
               ELSE [qk EXCEPT !.data = [i \in 1..qk.shape[1] |->
                                            <<"scale", att.dim_head, qk.data[i]>>]]
        sim_in == Attention_sim_at_softmax(att, sim, mask)
        attn == ops_softmax(sim_in)
    IN [out |-> ops_matmul(attn, v), softmax_in |-> sim_in]

\* ------------------------------------------------------------- CrossAttention
\* the accelerated kernel (mindspore FlashAttention), an external collaborator
FlashAttention__init__(head_dim, head_num) ==
    [cls |-> "FlashAttention", head_dim |-> head_dim, head_num |-> head_num]

FlashAttention_construct(fa, q, k, v, mask) ==
    LET e == FirstError(<<q, k, v>>)
    IN IF IsError(e) THEN e
       ELSE Tensor(q.shape, q.dtype,
                   [i \in 1..q.shape[1] |->
                       <<"flash", q.data[i], k.data[i], v.data[i],
                         IF IsTensor(mask) THEN mask.data[i] ELSE <<"no mask">> >>])

CrossAttention__init__(query_dim, context_dim, heads, dim_head, dtype, enable_flash_attention, fa_mask_dtype) ==
    LET inner_dim == dim_head * heads
        cdim == default(context_dim, PyInt(query_dim)).v
        enabled == enable_flash_attention /\ FLASH_IS_AVAILABLE
                   /\ device_target = "Ascend"
    IN [cls |-> "CrossAttention",
        heads |-> heads,
        to_q |-> Dense("to_q", query_dim, inner_dim, dtype),
        to_k |-> Dense("to_k", cdim, inner_dim, dtype),
        to_v |-> Dense("to_v", cdim, inner_dim, dtype),
        to_out |-> Dense("to_out", inner_dim, query_dim, dtype),
        head_dim |-> dim_head,
        attention |-> Attention__init__(dim_head),
        enable_flash_attention |-> enabled,
        flash_attention |-> IF enabled THEN FlashAttention__init__(dim_head, heads) ELSE None,
        fa_mask_dtype |-> IF enabled THEN fa_mask_dtype ELSE "unset",
        unet_chunk_size |-> 0,
        attrs |-> {"heads", "transpose", "to_q", "to_k", "to_v", "to_out", "head_dim",
                   "attention", "enable_flash_attention", "flash_attention"}
                  \union (IF enabled THEN {"fa_mask_dtype"} ELSE {})]

\* the outcome of a forward call: the tensor returned or the exception raised, the
\* path taken, the arguments the kernel (fa_call) or the Attention cell (attn_call)
\* was entered with, and the key and value handed to attention before any change
\* of layout (None while attention was never entered)
Returned(out, path, fa_call, attn_call, softmax_in, k, v) ==
    [raised |-> IF IsError(out) THEN out.err ELSE "",
     out |-> out, path |-> path, fa_call |-> fa_call, attn_call |-> attn_call,
     softmax_in |-> softmax_in, k |-> k, v |-> v]

\* the kernel's arguments, recorded when the kernel is entered
KernelCall(q, k, v, mask) ==
    IF IsError(FirstError(<<q, k, v>>)) THEN None
    ELSE [q |-> q, k |-> k, v |-> v, mask |-> mask]

\* the dispatch condition with the test on the key length lost
CrossAttention_use_flash_keys_unchecked(slf, q_n, k_n, head_dim) ==
    slf.enable_flash_attention /\ q_n % FlashSeqAlign = 0 /\ head_dim <= FlashMaxHeadDim

\* lines 191-193: the per-call dispatch condition
CrossAttention_use_flash(slf, q_n, k_n, head_dim) ==
    slf.enable_flash_attention /\ q_n % FlashSeqAlign = 0 /\ k_n % FlashSeqAlign = 0
    /\ head_dim <= FlashMaxHeadDim

\* lines 194-207
CrossAttention_flash_path(slf, q, k, v, mask, x_dtype) ==
    LET h == slf.heads
        q4 == ops_transpose(view_infer(q, <<q.shape[1], q.shape[2], h>>), <<0, 2, 1, 3>>)
        k4 == ops_transpose(view_infer(k, <<k.shape[1], k.shape[2], h>>), <<0, 2, 1, 3>>)
        v4 == ops_transpose(view_infer(v, <<v.shape[1], v.shape[2], h>>), <<0, 2, 1, 3>>)
        m == IF mask = None
             THEN ops_zeros(<<q.shape[1], q.shape[2], q.shape[2]>>, slf.fa_mask_dtype)
             ELSE mask
        q16 == to_dtype(q4, "float16")
        k16 == to_dtype(k4, "float16")
        v16 == to_dtype(v4, "float16")
        m16 == to_dtype(m, slf.fa_mask_dtype)
        o4 == FlashAttention_construct(slf.flash_attention, q16, k16, v16, m16)
        out == IF ~IsTensor(o4) THEN o4
               ELSE view_infer(ops_transpose(o4, <<0, 2, 1, 3>>), <<o4.shape[1], o4.shape[3]>>)
    IN Returned(to_dtype(Dense_construct(slf.to_out, out), x_dtype), "flash",
                KernelCall(q16, k16, v16, m16), None, None, k, v)

\* lines 209-216
CrossAttention_generic_path(slf, q, k, v, mask, x_dtype) ==
    LET h == slf.heads
        qf == _rearange_in(q, h)
        kf == _rearange_in(k, h)
        vf == _rearange_in(v, h)
        a == Attention_construct(slf.attention, qf, kf, vf, mask)
        out == _rearange_out(a.out, h)
    IN Returned(to_dtype(Dense_construct(slf.to_out, out), x_dtype), "generic",
                None, KernelCall(qf, kf, vf, mask), a.softmax_in, k, v)

\* CrossAttention.construct
CrossAttention_construct(slf, x, context, mask) ==
    LET x_dtype == x.dtype
        q == Dense_construct(slf.to_q, x)
        ctx == default(context, x)
        k == Dense_construct(slf.to_k, ctx)
        v == Dense_construct(slf.to_v, ctx)
        e == FirstError(<<q, k, v>>)
    IN IF IsError(e) THEN Returned(e, "none", None, None, None, None, None)
       ELSE IF CrossAttention_use_flash(slf, q.shape[2], k.shape[2],
                                        q.shape[3] \div slf.heads)
       THEN CrossAttention_flash_path(slf, q, k, v, mask, x_dtype)
       ELSE CrossAttention_generic_path(slf, q, k, v, mask, x_dtype)

\* -------------------------------------------------------- CrossFrameAttention
CrossFrameAttention__init__(unet_chunk_size, query_dim, context_dim, heads, dim_head, dtype, enable_flash_attention, fa_mask_dtype) ==
    LET base == CrossAttention__init__(query_dim, context_dim, heads, dim_head, dtype,
                                       enable_flash_attention, fa_mask_dtype)
    IN [base EXCEPT !.cls = "CrossFrameAttention",
                    !.unet_chunk_size = unet_chunk_size,
                    !.attrs = @ \union {"unet_chunk_size"}]

\* self.reshape(x, shape): the attribute is looked up on the module first
self_reshape(slf, x, shape) ==
    IF ~IsTensor(x) THEN x
    ELSE IF ~HasAttr(slf, "reshape") THEN Raise("AttributeError")
    ELSE ops_reshape(x, shape)

self_transpose(slf, x, perm) ==
    IF ~IsTensor(x) THEN x
    ELSE IF ~HasAttr(slf, "transpose") THEN Raise("AttributeError")
    ELSE ops_transpose(x, perm)

\* lines 233-242
rearange_in(slf, x) ==
    IF ~IsTensor(x) THEN x
    ELSE LET h == slf.heads
             b == x.shape[1]
             n == x.shape[2]
             d == x.shape[3] \div h
             x1 == self_reshape(slf, x, <<b, n, h, d>>)
             x2 == self_transpose(slf, x1, <<0, 2, 1, 3>>)
         IN self_reshape(slf, x2, <<b * h, n, d>>)

\* lines 244-248
rearange_frame(slf, x, f) ==
    IF ~IsTensor(x) THEN x
    ELSE IF f = 0 THEN Raise("ZeroDivisionError")
    ELSE self_reshape(slf, x, <<x.shape[1] \div f, f, x.shape[2], x.shape[3]>>)

\* lines 250-253
rearange_frame_back(slf, x) ==
    IF ~IsTensor(x) THEN x
    ELSE self_reshape(slf, x, <<x.shape[1] * x.shape[2], x.shape[3], x.shape[4]>>)

\* lines 275-284
rearange_out(slf, x) ==
    IF ~IsTensor(x) THEN x
    ELSE LET h == slf.heads
             b == x.shape[1] \div h
             n == x.shape[2]
             d == x.shape[3]
             x1 == self_reshape(slf, x, <<b, h, n, d>>)
             x2 == self_transpose(slf, x1, <<0, 2, 1, 3>>)
         IN self_reshape(slf, x2, <<b, n, h * d>>)

\* x[:, index]: along axis 1, position j of the result is position index[j] of x
Tensor_index_axis1(x, index) ==
    IF ~IsTensor(x) THEN x
    ELSE [x EXCEPT !.shape = [@ EXCEPT ![2] = Len(index)],
                   !.data = [c \in 1..x.shape[1] |->
                               Stack([j \in 1..Len(index) |->
                                        Piece(x.data[c], index[j] + 1, x.shape[2])])]]

\* lines 256-263, for k and for v alike
CrossFrameAttention_substitute(slf, k) ==
    IF ~IsTensor(k) THEN k
    ELSE IF slf.unet_chunk_size = 0 THEN Raise("ZeroDivisionError")
    ELSE LET video_length == k.shape[1] \div slf.unet_chunk_size
             former_frame_index == [i \in 1..video_length |-> 0]
             k1 == rearange_frame(slf, k, video_length)
             k2 == Tensor_index_axis1(k1, former_frame_index)
         IN rearange_frame_back(slf, k2)

\* line 269: the per-call dispatch condition
CrossFrameAttention_use_flash(slf, q_n, k_n) ==
    slf.enable_flash_attention /\ q_n % FlashSeqAlign = 0 /\ k_n % FlashSeqAlign = 0

\* CrossFrameAttention.construct
CrossFrameAttention_construct(slf, x, context, mask) ==
    LET q == Dense_construct(slf.to_q, x)
        is_cross_attention == context # None
        ctx == default(context, x)
        k == Dense_construct(slf.to_k, ctx)
        v == Dense_construct(slf.to_v, ctx)
        ks == IF ~is_cross_attention THEN CrossFrameAttention_substitute(slf, k) ELSE k
        vs == IF ~is_cross_attention /\ IsTensor(ks)
              THEN CrossFrameAttention_substitute(slf, v) ELSE v
        qf == rearange_in(slf, q)
        kf == rearange_in(slf, ks)
        vf == rearange_in(slf, vs)
        e == FirstError(<<q, k, v, ks, vs, qf, kf, vf>>)
    IN IF IsError(e) THEN Returned(e, "none", None, None, None, None, None)
       ELSE IF CrossFrameAttention_use_flash(slf, qf.shape[2], kf.shape[2])
       THEN LET o == FlashAttention_construct(slf.flash_attention, qf, kf, vf, None)
            IN Returned(Dense_construct(slf.to_out, rearange_out(slf, o)), "flash",
                        KernelCall(qf, kf, vf, None), None, None, ks, vs)
       ELSE LET a == Attention_construct(slf.attention, qf, kf, vf, mask)
            IN Returned(Dense_construct(slf.to_out, rearange_out(slf, a.out)), "generic",
                        None, KernelCall(qf, kf, vf, mask), a.softmax_in, ks, vs)

\* a call of a module object runs its class's construct
Cell_call(mod, x, context, mask) ==
    IF mod.cls = "CrossFrameAttention" THEN CrossFrameAttention_construct(mod, x, context, mask)
    ELSE CrossAttention_construct(mod, x, context, mask)

\* ------------------------------------------------------ BasicTransformerBlock
\* nn.LayerNorm([dim]).to_float(dtype)
LayerNorm(name, dim, dtype) == [name |-> name, dim |-> dim, dtype |-> dtype]

LayerNorm_construct(layer, x) ==
    IF ~IsTensor(x) THEN x
    ELSE IF x.shape[Len(x.shape)] # layer.dim THEN Raise("ValueError")
    ELSE Tensor(x.shape, layer.dtype, [i \in 1..x.shape[1] |-> <<layer.name, x.data[i]>>])

\* FeedForward(dim, glu=True): GEGLU(dim, 4*dim), dropout, Dense(4*dim, dim)
FeedForward__init__(dim, dtype) ==
    [proj |-> Dense("ff.proj", dim, 2 * (4 * dim), dtype),
     out |-> Dense("ff.out", 4 * dim, dim, dtype)]

FeedForward_construct(ff, x) ==
    LET p == Dense_construct(ff.proj, x)
        gated == IF ~IsTensor(p) THEN p
                 ELSE Tensor([p.shape EXCEPT ![Len(p.shape)] = @ \div 2], p.dtype,
                             [i \in 1..p.shape[1] |-> <<"geglu", p.data[i]>>])
    IN Dense_construct(ff.out, gated)

BasicTransformerBlock__init__(dim, n_heads, d_head, context_dim, dtype, enable_flash_attention, cross_frame_attention, unet_chunk_size, fa_mask_dtype) ==
    [cls |-> "BasicTransformerBlock",
     attn1 |-> IF cross_frame_attention
               THEN CrossFrameAttention__init__(unet_chunk_size, dim, None, n_heads, d_head,
                                                dtype, enable_flash_attention, fa_mask_dtype)
               ELSE CrossAttention__init__(dim, None, n_heads, d_head, dtype,
                                           enable_flash_attention, fa_mask_dtype),
     ff |-> FeedForward__init__(dim, dtype),
     attn2 |-> IF cross_frame_attention
               THEN CrossFrameAttention__init__(unet_chunk_size, dim, context_dim, n_heads,
                                                d_head, dtype, enable_flash_attention,
                                                fa_mask_dtype)
               ELSE CrossAttention__init__(dim, context_dim, n_heads, d_head, dtype,
                                           enable_flash_attention, fa_mask_dtype),
     norm1 |-> LayerNorm("norm1", dim, dtype),
     norm2 |-> LayerNorm("norm2", dim, dtype),
     norm3 |-> LayerNorm("norm3", dim, dtype)]

\* a + x of one attention sublayer: [a, x], a the attention call's outcome
BasicTransformerBlock_residual(a, x) == [a |-> a, x |-> ops_add(a.out, x)]

\* attn(n, context=context) + x, n the normalised x; the sublayer is not entered
\* (a is None) when an exception is already on its way
BasicTransformerBlock_sublayer(attn, n, x, context) ==
    IF IsTensor(n) THEN BasicTransformerBlock_residual(Cell_call(attn, n, context, None), x)
    ELSE [a |-> None, x |-> n]

\* [raised, out, attn1, attn2]: what the call returns or raises, and the two
\* attention calls' outcomes (None for a sublayer that was never entered)
BasicTransformerBlock_result(x, a1, a2) ==
    [raised |-> IF IsError(x) THEN x.err ELSE "", out |-> x, attn1 |-> a1, attn2 |-> a2]

\* x = self.ff(self.norm3(x)) + x
BasicTransformerBlock_ff(blk, s1, s2) ==
    BasicTransformerBlock_result(
        ops_add(FeedForward_construct(blk.ff, LayerNorm_construct(blk.norm3, s2.x)), s2.x),
        s1.a, s2.a)

\* x = self.attn2(self.norm2(x), context=context) + x
BasicTransformerBlock_attn2(blk, s1, context) ==
    BasicTransformerBlock_ff(blk, s1,
        BasicTransformerBlock_sublayer(blk.attn2, LayerNorm_construct(blk.norm2, s1.x),
                                       s1.x, context))

\* BasicTransformerBlock.construct; x = self.attn1(self.norm1(x)) + x comes first
BasicTransformerBlock_construct(blk, x, context) ==
    BasicTransformerBlock_attn2(blk,
        BasicTransformerBlock_sublayer(blk.attn1, LayerNorm_construct(blk.norm1, x), x, None),
        context)

\* --------------------------------------------------------- SpatialTransformer
\* Zero out the parameters of a module and return it.
zero_module(module) == [module EXCEPT !.zero = TRUE]

\* nn.Conv2d(in, out, kernel_size=1): acts on the channel axis of (b, c, h, w)
Conv2d(name, in_channels, out_channels, dtype) ==
    [name |-> name, in_channels |-> in_channels, out_channels |-> out_channels,
     dtype |-> dtype, zero |-> FALSE]

Conv2d_construct(layer, x) ==
    IF ~IsTensor(x) THEN x
    ELSE IF Len(x.shape) # 4 \/ x.shape[2] # layer.in_channels THEN Raise("ValueError")
    ELSE Tensor([x.shape EXCEPT ![2] = layer.out_channels], layer.dtype,
                [i \in 1..x.shape[1] |->
                    IF layer.zero THEN <<"zeros">> ELSE <<layer.name, x.data[i]>>])

\* Normalize(in_channels): GroupNorm over 32 groups, computed in float32
Normalize_construct(in_channels, x) ==
    IF ~IsTensor(x) THEN x
    ELSE IF x.shape[2] # in_channels THEN Raise("ValueError")
    ELSE Tensor(x.shape, "float32", [i \in 1..x.shape[1] |-> <<"norm", x.data[i]>>])

SpatialTransformer__init__(in_channels, n_heads, d_head, depth, context_dim, use_linear, dtype, enable_flash_attention, cross_frame_attention, unet_chunk_size, fa_mask_dtype) ==
    LET inner_dim == n_heads * d_head
    IN [cls |-> "SpatialTransformer",
        in_channels |-> in_channels,
        proj_in |-> IF ~use_linear THEN Conv2d("proj_in", in_channels, inner_dim, dtype)
                    ELSE Dense("proj_in", in_channels, inner_dim, dtype),
        transformer_blocks |->
            [d \in 1..depth |->
                BasicTransformerBlock__init__(inner_dim, n_heads, d_head, context_dim, dtype,
                                              enable_flash_attention, cross_frame_attention,
                                              unet_chunk_size, fa_mask_dtype)],
        proj_out |-> IF ~use_linear
                     THEN zero_module(Conv2d("proj_out", inner_dim, in_channels, dtype))
                     ELSE zero_module(Dense("proj_out", in_channels, inner_dim, dtype)),
        use_linear |-> use_linear]

\* lines 469-470: the blocks in order, the same context to each
RECURSIVE RunBlocks(_, _, _, _)
RunBlocks(blocks, i, x, context) ==
    IF i > Len(blocks) \/ ~IsTensor(x) THEN x
    ELSE RunBlocks(blocks, i + 1, BasicTransformerBlock_construct(blocks[i], x, context).out,
                   context)

\* the convolution projections act when use_linear is off
SpatialTransformer_conv(st, layer, x) ==
    IF ~st.use_linear THEN Conv2d_construct(layer, x) ELSE x

\* the linear projections act when use_linear is on
SpatialTransformer_dense(st, layer, x) ==
    IF st.use_linear THEN Dense_construct(layer, x) ELSE x

\* [raised, out]: what the call returns or raises
SpatialTransformer_result(out) == [raised |-> IF IsError(out) THEN out.err ELSE "", out |-> out]

\* lines 464-468: norm, proj_in, (b, c, h, w) -> (b, h*w, c); b, c, h, w are x's
SpatialTransformer_fold(st, x) ==
    SpatialTransformer_dense(st, st.proj_in,
        ops_transpose(
            ops_reshape(
                SpatialTransformer_conv(st, st.proj_in, Normalize_construct(st.in_channels, x)),
                <<x.shape[1], x.shape[2], x.shape[3] * x.shape[4]>>),
            <<0, 2, 1>>))

\* lines 471-476: proj_out, (b, h*w, c) -> (b, c, h, w), x being the block output
SpatialTransformer_unfold(st, x, x_in) ==
    SpatialTransformer_conv(st, st.proj_out,
        ops_transpose(
            ops_reshape(
                SpatialTransformer_dense(st, st.proj_out, x),
                <<x_in.shape[1], x_in.shape[3], x_in.shape[4], x_in.shape[2]>>),
            <<0, 3, 1, 2>>))

\* SpatialTransformer.construct
SpatialTransformer_construct(st, x, context) ==
    SpatialTransformer_result(
        ops_add(
            SpatialTransformer_unfold(st,
                RunBlocks(st.transformer_blocks, 1, SpatialTransformer_fold(st, x), context),
                x),
            x))

\* ------------------------------------------------------------------- inputs
NoModule == [cls |-> "none"]

NoCall == [op |-> "none"]

ContextDims == {None, PyInt(48)}

InChannels == {NormNumGroups * g : g \in 1..2}

GridHeadDims == {32, 40}

\* an activation of batch b whose slabs are the frames x[1], ..., x[b]
Input(name, shape, dtype) == Tensor(shape, dtype, [i \in 1..shape[1] |-> <<name, i>>])

\* the contexts a call may be given: absent, the very tensor x (when the key
\* projection takes x's channel count), or a tensor of its own
Contexts(mod, x) ==
    (IF mod.to_k.in_channels = x.shape[3] THEN {None, x} ELSE {})
    \union {Input("context", <<x.shape[1], nk, mod.to_k.in_channels>>, x.dtype) :
              nk \in SeqLens}

Masks(x, ctx) ==
    {None, Input("mask", <<x.shape[1], ctx.shape[2]>>, "bool"),
     Input("mask", <<x.shape[1], x.shape[2], ctx.shape[2]>>, "bool")}

\* a tensor whose elements are tracked one by one: base+1, base+2, ... in row-major order
Iota(shape, base) ==
    [Tensor(shape, "float32", [i \in 1..shape[1] |-> <<"x", i>>])
        EXCEPT !.flat = [p \in 1..Numel(shape) |-> base + p]]

\* element (i, j, k), 0-based, of a rank-3 tensor with tracked elements
At3(t, i, j, k) == t.flat[Offset(<<i, j, k>>, t.shape, 1) + 1]

\* --------------------------------------------------------------------- state
Init ==
    /\ FLASH_IS_AVAILABLE \in BOOLEAN
    /\ device_target \in Targets
    /\ self = NoModule
    /\ ret = NoCall

\* ------------------------------------------------------------------- actions
New_CrossAttention ==
    /\ self = NoModule
    /\ \E query_dim \in QueryDims, context_dim \in ContextDims, heads \in 1..MaxHeads,
          dim_head \in HeadDims, dtype \in DTypes, enable_flash_attention \in BOOLEAN,
          fa_mask_dtype \in MaskDTypes :
          self' = CrossAttention__init__(query_dim, context_dim, heads, dim_head, dtype,
                                         enable_flash_attention, fa_mask_dtype)
    /\ UNCHANGED <<FLASH_IS_AVAILABLE, device_target, ret>>

New_CrossFrameAttention ==
    /\ self = NoModule
    /\ \E query_dim \in QueryDims, context_dim \in ContextDims, heads \in 1..MaxHeads,
          dim_head \in HeadDims, dtype \in DTypes, enable_flash_attention \in BOOLEAN,
          fa_mask_dtype \in MaskDTypes :
          self' = CrossFrameAttention__init__(DefaultChunkSize, query_dim, context_dim, heads,
                                              dim_head, dtype, enable_flash_attention,
                                              fa_mask_dtype)
    /\ UNCHANGED <<FLASH_IS_AVAILABLE, device_target, ret>>

New_BasicTransformerBlock ==
    /\ self = NoModule
    /\ \E dim \in QueryDims, context_dim \in ContextDims, n_heads \in 1..MaxHeads,
          d_head \in HeadDims, dtype \in DTypes, enable_flash_attention \in BOOLEAN,
          cross_frame_attention \in BOOLEAN, fa_mask_dtype \in MaskDTypes :
          self' = BasicTransformerBlock__init__(dim, n_heads, d_head, context_dim, dtype,
                                                enable_flash_attention, cross_frame_attention,
                                                DefaultChunkSize, fa_mask_dtype)
    /\ UNCHANGED <<FLASH_IS_AVAILABLE, device_target, ret>>

New_SpatialTransformer ==
    /\ self = NoModule
    /\ \E in_channels \in InChannels, n_heads \in 1..MaxHeads, d_head \in GridHeadDims,
          depth \in 1..MaxDepth, context_dim \in ContextDims, use_linear \in BOOLEAN,
          dtype \in DTypes, cross_frame_attention \in BOOLEAN :
          self' = SpatialTransformer__init__(in_channels, n_heads, d_head, depth, context_dim,
                                             use_linear, dtype, FALSE, cross_frame_attention,
                                             DefaultChunkSize, "unset")
    /\ UNCHANGED <<FLASH_IS_AVAILABLE, device_target, ret>>

Call_CrossAttention ==
    /\ ret = NoCall
    /\ self.cls = "CrossAttention"
    /\ \E b \in 1..MaxBatch, nq \in SeqLens, dtype \in DTypes :
          LET x == Input("x", <<b, nq, self.to_q.in_channels>>, dtype)
          IN \E context \in Contexts(self, x) :
                \E mask \in Masks(x, default(context, x)) :
                   ret' = [op |-> "CrossAttention.construct", x |-> x, context |-> context,
                           mask |-> mask,
                           res |-> CrossAttention_construct(self, x, context, mask)]
    /\ UNCHANGED <<FLASH_IS_AVAILABLE, device_target, self>>

Call_CrossFrameAttention ==
    /\ ret = NoCall
    /\ self.cls = "CrossFrameAttention"
    /\ \E b \in 1..(self.unet_chunk_size * MaxVideoLength), nq \in SeqLens, dtype \in DTypes :
          LET x == Input("x", <<b, nq, self.to_q.in_channels>>, dtype)
          IN \E context \in Contexts(self, x) :
                \E mask \in Masks(x, default(context, x)) :
                   ret' = [op |-> "CrossFrameAttention.construct", x |-> x,
                           context |-> context, mask |-> mask,
                           res |-> CrossFrameAttention_construct(self, x, context, mask)]
    /\ UNCHANGED <<FLASH_IS_AVAILABLE, device_target, self>>

\* a direct call of the module's Attention cell on head-folded q, k, v
Call_Attention ==
    /\ ret = NoCall
    /\ self.cls \in {"CrossAttention", "CrossFrameAttention"}
    /\ \E b \in 1..MaxBatch, nq \in 1..MaxDim, nk \in 1..MaxDim, dtype \in DTypes :
          LET q == Input("q", <<b * self.heads, nq, self.head_dim>>, dtype)
              k == Input("k", <<b * self.heads, nk, self.head_dim>>, dtype)
              v == Input("v", <<b * self.heads, nk, self.head_dim>>, dtype)
          IN \E mask \in {None, Input("mask", <<b, nk>>, "bool")} :
                ret' = [op |-> "Attention.construct", q |-> q, k |-> k, v |-> v,
                        mask |-> mask, heads |-> self.heads,
                        res |-> Attention_construct(self.attention, q, k, v, mask)]
    /\ UNCHANGED <<FLASH_IS_AVAILABLE, device_target, self>>

Call_BasicTransformerBlock ==
    /\ ret = NoCall
    /\ self.cls = "BasicTransformerBlock"
    /\ \E b \in 1..MaxBatch, n \in SeqLens, dtype \in DTypes :
          LET x == Input("x", <<b, n, self.attn1.to_q.in_channels>>, dtype)
          IN \E context \in Contexts(self.attn2, x) \ {x} :
                ret' = [op |-> "BasicTransformerBlock.construct", x |-> x,
                        context |-> context,
                        res |-> BasicTransformerBlock_construct(self, x, context)]
    /\ UNCHANGED <<FLASH_IS_AVAILABLE, device_target, self>>

Call_SpatialTransformer ==
    /\ ret = NoCall
    /\ self.cls = "SpatialTransformer"
    /\ \E b \in 1..MaxBatch, h \in 1..MaxSide, w \in 1..MaxSide, dtype \in DTypes :
          LET x == Input("x", <<b, self.in_channels, h, w>>, dtype)
              cdim == IF Len(self.transformer_blocks) = 0 THEN self.in_channels
                      ELSE self.transformer_blocks[1].attn2.to_k.in_channels
              inner == self.proj_in.out_channels
          IN \E context \in (IF cdim = inner THEN {None} ELSE {})
                            \union {Input("context", <<b, nk, cdim>>, dtype) : nk \in SeqLens} :
                ret' = [op |-> "SpatialTransformer.construct", x |-> x, context |-> context,
                        res |-> SpatialTransformer_construct(self, x, context)]
    /\ UNCHANGED <<FLASH_IS_AVAILABLE, device_target, self>>

\* the two static methods, on tensors whose elements are tracked
Call__rearange_in ==
    /\ ret = NoCall
    /\ \E b \in 1..MaxDim, n \in 1..MaxDim, h \in 1..MaxHeads, d \in 1..MaxDim,
          base \in 0..MaxBase :
          LET x == Iota(<<b, n, h * d>>, base)
          IN ret' = [op |-> "_rearange_in", x |-> x, h |-> h, res |-> _rearange_in(x, h)]
    /\ UNCHANGED <<FLASH_IS_AVAILABLE, device_target, self>>

Call__rearange_out ==
    /\ ret.op = "_rearange_in"
    /\ ret' = [op |-> "_rearange_out", x |-> ret.x, h |-> ret.h, folded |-> ret.res,
               res |-> _rearange_out(ret.res, ret.h)]
    /\ UNCHANGED <<FLASH_IS_AVAILABLE, device_target, self>>

\* the call is synchronous: its result is handed to the caller before the next call
Return ==
    /\ ret # NoCall
    /\ ret' = NoCall
    /\ UNCHANGED <<FLASH_IS_AVAILABLE, device_target, self>>

\* ------------------------------------------------------------ specifications
\* one attention module (or one block) and the calls made on it
Next ==
    \/ New_CrossAttention
    \/ New_CrossFrameAttention
    \/ New_BasicTransformerBlock
    \/ Call_CrossAttention
    \/ Call_CrossFrameAttention
    \/ Call_Attention
    \/ Call_BasicTransformerBlock
    \/ Return

Spec == Init /\ [][Next]_vars

\* one spatial transformer and the calls made on it
NextGrid == New_SpatialTransformer \/ Call_SpatialTransformer \/ Return

SpecGrid == Init /\ [][NextGrid]_vars

\* the head-folding static methods
NextFold == Call__rearange_in \/ Call__rearange_out \/ Return

SpecFold == Init /\ [][NextFold]_vars

\* ----------------------------------------------------------- reading a state
\* The attention calls the current result records, each with the lengths of the
\* query and key sequences it was given: the call itself, or a block's two sublayers.
AttentionCalls ==
    IF ret.op \in {"CrossAttention.construct", "CrossFrameAttention.construct"}
    THEN << [cls |-> self.cls, nq |-> ret.x.shape[2],
             nk |-> default(ret.context, ret.x).shape[2],
             b |-> ret.x.shape[1], heads |-> self.heads, head_dim |-> self.head_dim,
             mask |-> ret.mask, res |-> ret.res] >>
    ELSE IF ret.op = "BasicTransformerBlock.construct"
    THEN LET one == IF ret.res.attn1 = None THEN <<>>
                    ELSE << [cls |-> self.attn1.cls, nq |-> ret.x.shape[2],
                             nk |-> ret.x.shape[2], b |-> ret.x.shape[1],
                             heads |-> self.attn1.heads, head_dim |-> self.attn1.head_dim,
                             mask |-> None, res |-> ret.res.attn1] >>
             two == IF ret.res.attn2 = None THEN <<>>
                    ELSE << [cls |-> self.attn2.cls, nq |-> ret.x.shape[2],
                             nk |-> default(ret.context, ret.x).shape[2],
                             b |-> ret.x.shape[1],
                             heads |-> self.attn2.heads, head_dim |-> self.attn2.head_dim,
                             mask |-> None, res |-> ret.res.attn2] >>
         IN one \o two
    ELSE <<>>

\* frame 0 of the chunk that frame b (1-based) belongs to, chunks of video_length frames
ChunkStart(b, video_length) == ((b - 1) \div video_length) * video_length + 1

\* every slab of t is the projection name of the matching slab of src
ProjectionOf(t, name, src) ==
    /\ IsTensor(t)
    /\ t.shape[1] = src.shape[1]
    /\ \A i \in 1..t.shape[1] : t.data[i] = <<name, src.data[i]>>

\* ------------------------------------------------------------------- claims

\* C1: every CrossAttention.forward call takes the accelerated path exactly when
\* the kernel was enabled and available at construction and this call's Nq and Nk
\* are multiples of 16 and head-dim <= 128; every other call takes the generic
\* path and returns a result without raising.
C1_DispatchAndFallback ==
    ret.op = "CrossAttention.construct" =>
        LET nq == ret.x.shape[2]
            nk == default(ret.context, ret.x).shape[2]
            eligible == /\ self.enable_flash_attention
                        /\ FLASH_IS_AVAILABLE /\ device_target = "Ascend"
                        /\ nq % 16 = 0 /\ nk % 16 = 0 /\ self.head_dim <= 128
        IN /\ (ret.res.path = "flash") <=> eligible
           /\ ~eligible => (ret.res.path = "generic" /\ ret.res.raised = ""
                            /\ IsTensor(ret.res.out))

\* C2: in CrossAttention.forward and CrossFrameAttention.forward alike, the
\* accelerated kernel is never entered in a call whose query or key sequence
\* length is not a multiple of 16, whatever the enable flag and the calls before.
C2_DivisibilityGuard ==
    \A i \in 1..Len(AttentionCalls) :
        LET c == AttentionCalls[i]
        IN (c.res.fa_call # None \/ c.res.path = "flash") =>
              (c.nq % 16 = 0 /\ c.nk % 16 = 0)

\* a CrossAttention call on a module whose kernel is enabled, with a sequence
\* length that is no multiple of 16, went down the generic path and returned
C2_Witness ==
    /\ ret.op = "CrossAttention.construct"
    /\ self.enable_flash_attention
    /\ self.head_dim <= 128
    /\ ret.x.shape[2] % 16 = 0
    /\ default(ret.context, ret.x).shape[2] % 16 # 0
    /\ ret.res.path = "generic"
    /\ ret.res.fa_call = None
    /\ ret.res.raised = ""

\* C3: CrossFrameAttention.forward without context on chunk_size * video_length
\* frames: the key and value used for frame i of a chunk are those computed from
\* frame 0 of that chunk, for every chunk and every i, and the batch size of k
\* and v is unchanged.
C3_ReferenceFrameSubstitution ==
    (/\ ret.op = "CrossFrameAttention.construct"
     /\ ret.context = None
     /\ ret.x.shape[1] >= self.unet_chunk_size
     /\ ret.x.shape[1] % self.unet_chunk_size = 0) =>
        LET video_length == ret.x.shape[1] \div self.unet_chunk_size
        IN /\ IsTensor(ret.res.k) /\ IsTensor(ret.res.v)
           /\ ret.res.k.shape[1] = ret.x.shape[1]
           /\ ret.res.v.shape[1] = ret.x.shape[1]
           /\ \A b \in 1..ret.x.shape[1] :
                 /\ ret.res.k.data[b] = <<"to_k", ret.x.data[ChunkStart(b, video_length)]>>
                 /\ ret.res.v.data[b] = <<"to_v", ret.x.data[ChunkStart(b, video_length)]>>

\* C4: in Attention.attend with a mask, every similarity entry whose position is
\* masked holds the most negative finite value of the working precision (float16
\* or float32) when softmax is applied, and the call completes without error.
C4_MaskedScores ==
    (ret.op = "Attention.construct" /\ ret.mask # None) =>
        /\ IsTensor(ret.res.out)
        /\ IsTensor(ret.res.softmax_in)
        /\ \A r \in 1..ret.q.shape[1] :
              /\ ret.res.softmax_in.data[r][1] = "masked_fill"
              /\ ret.res.softmax_in.data[r][3] = ret.mask.data[((r - 1) \div ret.heads) + 1]
              /\ ret.res.softmax_in.data[r][4] = <<"-finfo.max", ret.q.dtype>>

\* C5: CrossAttention.forward(x) gives what CrossAttention.forward(x, context=x)
\* gives, on either path; the default to x is applied only when context is None,
\* an explicit context is the one projected to key and value.
C5_SelfAttentionDefault ==
    ret.op = "CrossAttention.construct" =>
        /\ ret.context = None =>
              ret.res = CrossAttention_construct(self, ret.x, ret.x, ret.mask)
        /\ (ret.context # None /\ ret.res.path # "none") =>
              /\ ProjectionOf(ret.res.k, "to_k", ret.context)
              /\ ProjectionOf(ret.res.v, "to_v", ret.context)

\* a call without context returned through the accelerated path
C5_Witness ==
    /\ ret.op = "CrossAttention.construct"
    /\ ret.context = None
    /\ ret.res.path = "flash"
    /\ ret.res.raised = ""
    /\ ProjectionOf(ret.res.k, "to_k", ret.x)

\* C6: for every valid x (B, Nq, C_in), optional context and optional mask,
\* CrossAttention.forward returns a tensor of shape (B, Nq, C_in) in x's own
\* precision, whichever path the call takes.
C6_ShapeAndPrecision ==
    ret.op = "CrossAttention.construct" =>
        /\ IsTensor(ret.res.out)
        /\ ret.res.out.shape = ret.x.shape
        /\ ret.res.out.dtype = ret.x.dtype

\* C7: right after construction, for every configuration (convolution or linear
\* projection, any n_heads and d_head) and every x (B, in_channels, H, W),
\* SpatialTransformer.forward(x) completes and returns a tensor of x's shape
\* equal to x.
C7_ZeroInitIdentity ==
    ret.op = "SpatialTransformer.construct" =>
        /\ IsTensor(ret.res.out)
        /\ ret.res.out.shape = ret.x.shape
        /\ ret.res.out.data = ret.x.data

\* C8: _rearange_out(_rearange_in(x, H), H) has x's shape and x's value at every
\* index; in the folded (B*H, N, D) tensor, row b*H + h holds channels
\* h*D .. h*D+D-1 of batch element b.
C8_HeadRoundTrip ==
    /\ ret.op = "_rearange_out" =>
          /\ IsTensor(ret.res)
          /\ ret.res.shape = ret.x.shape
          /\ ret.res.flat = ret.x.flat
    /\ ret.op \in {"_rearange_in", "_rearange_out"} =>
          LET folded == IF ret.op = "_rearange_in" THEN ret.res ELSE ret.folded
              B == ret.x.shape[1]
              N == ret.x.shape[2]
              H == ret.h
              D == ret.x.shape[3] \div ret.h
          IN /\ IsTensor(folded)
             /\ folded.shape = <<B * H, N, D>>
             /\ \A b \in 0..(B - 1), h \in 0..(H - 1), n \in 0..(N - 1), d \in 0..(D - 1) :
                   At3(folded, b * H + h, n, d) = At3(ret.x, b, n, h * D + d)

\* a round trip of a tensor with several batch elements, tokens, heads and channels
C8_Witness ==
    /\ ret.op = "_rearange_out"
    /\ ret.h >= 2
    /\ ret.x.shape[1] >= 2
    /\ ret.x.shape[2] >= 2
    /\ ret.x.shape[3] >= 2 * ret.h
    /\ ret.res.flat = ret.x.flat

C10_SubstitutionOnlyWithoutContext ==
    /\ (ret.op = "CrossFrameAttention.construct" /\ ret.context # None) =>
          /\ ProjectionOf(ret.res.k, "to_k", ret.context)
          /\ ProjectionOf(ret.res.v, "to_v", ret.context)
    /\ (/\ ret.op = "BasicTransformerBlock.construct"
        /\ self.attn1.cls = "CrossFrameAttention"
        /\ ret.context # None) =>
          /\ ret.res.attn2 # None
          /\ ProjectionOf(ret.res.attn2.k, "to_k", ret.context)

====
